---- MODULE Spec2Model ----
(***************************************************************************)
(* Learner-mode engine of the lesson workspace (LessonWorkspace.tsx) with  *)
(* the host handlers of App that it calls.                                 *)
(*                                                                         *)
(* Strings are sequences of one-character strings, so that trimming,       *)
(* whitespace stripping, prefix tests and substring search are computed    *)
(* as the code computes them.  undefined and "" are both falsy in every    *)
(* place the code reads lesson.userCode, lesson.steps, lesson.solutionCode *)
(* and step.context, so both are written <<>>.                             *)
(*                                                                         *)
(* React state is modelled as the component's state variables; `rendered`  *)
(* is the snapshot the effect closures of the last committed render read,  *)
(* and `effects` the effects of that render still to run (an effect runs   *)
(* when one of its dependencies changed, in declaration order).  State     *)
(* updates made by the effects of one render are batched: the next render  *)
(* happens when the last of them has run.  Events are handled when no      *)
(* effect is pending.                                                      *)
(***************************************************************************)
EXTENDS Integers, Sequences, FiniteSets, TLC

\* ---------------------------------------------------------------- bounds
MaxBuf == 1
MaxPending == 1
MaxCompletions == 1
MaxRaw == 2
MaxWs == 3

\* ------------------------------------------------------------ characters
Whitespace == {" ", "\n", "\t"}

Alphabet == {"a", "b"}

RECURSIVE SeqsOfLen(_, _)
SeqsOfLen(S, n) ==
    IF n = 0 THEN {<<>>}
    ELSE {<<c>> \o s : c \in S, s \in SeqsOfLen(S, n - 1)}

SeqsUpTo(S, n) == UNION {SeqsOfLen(S, k) : k \in 0..n}

\* ------------------------------------------------------ string functions
\* mutant: only the spaces are removed
normalizeSpaces(s) == SelectSeq(s, LAMBDA c : c # " ")

\* String.prototype.replace(/\s+/g, '')
normalize(s) == SelectSeq(s, LAMBDA c : c \notin Whitespace)

\* mutant: the offset of the rightmost occurrence
indexOfLast(s, t) ==
    LET hits == {i \in 0..(Len(s) - Len(t)) : SubSeq(s, i + 1, i + Len(t)) = t}
    IN  IF hits = {} THEN -1 ELSE CHOOSE i \in hits : \A j \in hits : i >= j

\* String.prototype.indexOf: offset of the leftmost occurrence, or -1
indexOf(s, t) ==
    LET hits == {i \in 0..(Len(s) - Len(t)) : SubSeq(s, i + 1, i + Len(t)) = t}
    IN  IF hits = {} THEN -1 ELSE CHOOSE i \in hits : \A j \in hits : i <= j

\* String.prototype.includes
includes(s, t) == indexOf(s, t) # -1

startsWith(s, t) == Len(t) <= Len(s) /\ SubSeq(s, 1, Len(t)) = t

endsWith(s, t) == Len(t) <= Len(s) /\ SubSeq(s, Len(s) - Len(t) + 1, Len(s)) = t

RECURSIVE trimStart(_)
trimStart(s) ==
    IF s # <<>> /\ Head(s) \in Whitespace THEN trimStart(Tail(s)) ELSE s

RECURSIVE trimEnd(_)
trimEnd(s) ==
    IF s # <<>> /\ s[Len(s)] \in Whitespace
    THEN trimEnd(SubSeq(s, 1, Len(s) - 1)) ELSE s

\* String.prototype.trim
trim(s) == trimEnd(trimStart(s))

\* String.prototype.slice(0, n) for n >= 0
slice(s, n) == SubSeq(s, 1, IF n < Len(s) THEN n ELSE Len(s))

\* s.split('\n').length
splitLength(s) == Cardinality({i \in 1..Len(s) : s[i] = "\n"}) + 1

\* code.split('\n').filter(l => l.trim().length > 0)
RECURSIVE splitLines(_, _)
splitLines(s, cur) ==
    IF s = <<>> THEN <<cur>>
    ELSE IF Head(s) = "\n" THEN <<cur>> \o splitLines(Tail(s), <<>>)
    ELSE splitLines(Tail(s), Append(cur, Head(s)))

HtmlOpen == <<"<", "!", "-", "-">>
HtmlClose == <<"-", "-", ">">>
LineComment == <<"/", "/">>
BlockComment == <<"/", "*">>

INSERTION_MARKER ==
    <<"<", "!", "-", "-", " ", "W", "r", "i", "t", "e", " ", "c", "o", "d",
      "e", " ", "h", "e", "r", "e", " ", "-", "-", ">">>

BodyTag == <<"<", "b", "o", "d", "y", ">">>

\* initialCode.replace(/<body>/i, `<body>\n  ${INSERTION_MARKER}`): the regular
\* expression is case-insensitive, the replacement text is lower case
toLowerChar(c) ==
    CASE c = "B" -> "b" [] c = "O" -> "o" [] c = "D" -> "d" [] c = "Y" -> "y"
      [] OTHER -> c

toLower(s) == [i \in 1..Len(s) |-> toLowerChar(s[i])]

replaceBody(s) ==
    LET i == indexOf(toLower(s), BodyTag)
    IN  IF i = -1 THEN s
        ELSE SubSeq(s, 1, i) \o BodyTag \o <<"\n", " ", " ">> \o INSERTION_MARKER
             \o SubSeq(s, i + Len(BodyTag) + 1, Len(s))

\* the code the lesson/settings effect puts in the editor
initialCodeFor(userCode, lessonInitialCode, showInsertionHints) ==
    LET initialCode == IF userCode # <<>> THEN userCode ELSE lessonInitialCode
    IN  IF showInsertionHints /\ ~includes(initialCode, INSERTION_MARKER)
           /\ userCode = <<>>
        THEN IF includes(initialCode, BodyTag) THEN replaceBody(initialCode)
             ELSE IF trim(initialCode) = <<>> THEN INSERTION_MARKER
             ELSE initialCode \o <<"\n", "\n">> \o INSERTION_MARKER
        ELSE initialCode

\* ----------------------------------------------------------------- steps
Step(c, e, x) == [code |-> c, explanation |-> e, context |-> x]

\* mutant: a code that ends with the HTML comment closer is kept
keepStepNoCloser(s) ==
    LET trimmed == trim(s.code)
    IN  /\ Len(trimmed) # 0
        /\ ~startsWith(trimmed, HtmlOpen)
        /\ ~(startsWith(trimmed, LineComment) \/ startsWith(trimmed, BlockComment))

\* mutant: only the steps without code are rejected
keepStepNonEmpty(s) == Len(trim(s.code)) # 0

\* the predicate of steps.filter in initializeLearnerMode
keepStep(s) ==
    LET trimmed == trim(s.code)
    IN  /\ Len(trimmed) # 0
        /\ ~(startsWith(trimmed, HtmlOpen) \/ endsWith(trimmed, HtmlClose))
        /\ ~(startsWith(trimmed, LineComment) \/ startsWith(trimmed, BlockComment))

\* mutant: a step that follows a rejected step is kept without being tested
filterStepsSkipping(steps) ==
    LET keep == {i \in 1..Len(steps) :
                    keepStep(steps[i]) \/ (i > 1 /\ ~keepStep(steps[i - 1]))}
    IN  [k \in 1..Cardinality(keep) |->
            steps[CHOOSE i \in keep : Cardinality({j \in keep : j <= i}) = k]]

\* Array.prototype.filter with that predicate
filterSteps(steps) == SelectSeq(steps, keepStep)

\* mutant: the blank lines of the solution become steps as well
fallbackStepsAllLines(solutionCode) ==
    LET lines == splitLines(solutionCode, <<>>)
    IN  [i \in 1..Len(lines) |-> Step(lines[i], "Type this line.", <<>>)]

\* the catch branch of generateLearnerSteps
fallbackSteps(solutionCode) ==
    LET lines == SelectSeq(splitLines(solutionCode, <<>>),
                           LAMBDA l : Len(trim(l)) > 0)
    IN  [i \in 1..Len(lines) |-> Step(lines[i], "Type this line.", <<>>)]

\* responses of the step source (JSON.parse(response.text || "[]"))
AiResponses ==
    { << Step(<<"<", "!", "-", "-", "a", "-", "-", ">">>, "e1", <<>>),
         Step(<<" ">>, "e2", <<>>) >>,
      << Step(<<"/", "*", "a">>, "e1", <<>>),
         Step(<<" ", "a", " ", "b">>, "e2", <<"b">>),
         Step(<<"b", "-", "-", ">">>, "e3", <<"a", " ", "b">>) >>,
      << Step(<<"b">>, "e1", <<>>),
         Step(<<"a">>, "e2", <<" ", "b">>),
         Step(<<"a", "b">>, "e3", <<"a">>) >> }

\* generateLearnerSteps: what the promise can resolve to
generateLearnerSteps(solutionCode) ==
    AiResponses \cup {fallbackSteps(solutionCode)}

\* --------------------------------------------------------------- lessons
\* The course: one module, lessons in course order.
Lessons == 1..3

NoLesson == 0

LessonData ==
    << [ initialCode  |-> <<>>,
         solutionCode |-> <<"a", "\n", "b", " ", "b">>,
         steps        |-> << Step(<<"a">>, "s1", <<>>),
                             Step(<<"<", "!", "-", "-", " ", "b", " ", "-", "-", ">">>, "s2", <<>>),
                             Step(<<"b", " ", "b">>, "s3", <<"a">>),
                             Step(<<>>, "s4", <<>>),
                             Step(<<" ", "/", "/", "a">>, "s5", <<>>) >> ],
       [ initialCode  |-> <<"b">>,
         solutionCode |-> <<"a", " ", "b", "\n", " ", "\n", "b">>,
         steps        |-> <<>> ],
       [ initialCode  |-> <<"a">>,
         solutionCode |-> <<>>,
         steps        |-> <<>> ] >>

\* what the learner can make of the buffer: every text over the alphabet up
\* to MaxBuf characters, some longer texts, and texts with white space in them
TypedBuffers == { <<"a", "b">>, <<"b", "a">> }

WhitespaceBuffers ==
    { <<"a", " ", "b">>, <<"b", "\n", "b">>, <<" ", "a">>, <<"a", "\n", "b">> }

BufferPool ==
    SeqsUpTo(Alphabet, MaxBuf) \cup TypedBuffers \cup WhitespaceBuffers

\* saved courses a session can start from (completed flag, userCode per lesson)
FreshCourse == [l \in Lessons |-> [completed |-> FALSE, userCode |-> <<>>]]

SavedCourses ==
    { FreshCourse,
      [FreshCourse EXCEPT ![1] = [completed |-> TRUE, userCode |-> <<"a", "b", "b">>]] }

SettingsSet == [learnerMode : BOOLEAN, showInsertionHints : BOOLEAN]

\* ------------------------------------------------------------------ state
VARIABLES
    view,               \* App: 'map' | 'workspace'
    currentLesson,      \* App: the lesson shown in the workspace, or NoLesson
    course,             \* App: completed flag and userCode of every lesson
    settings,           \* App: learnerMode, showInsertionHints
    code,               \* LessonWorkspace: the buffer
    learnerSteps,
    currentStepIndex,
    learnerModeActive,
    isLoadingSteps,
    highlightLine,
    checkResult,        \* "null" | "passed"
    learnerFeedback,
    pendingSteps,       \* generateLearnerSteps calls awaited, per lesson
    rendered,           \* what the closures of the committed render read
    effects,            \* effects of the committed render still to run
    completions,        \* number of onComplete calls so far
    emitted,            \* onComplete calls since the lesson shown last changed
    cause,              \* history: why the lesson/settings effect is due
    stepsOf,            \* history: the lesson learnerSteps was derived from
    rawSteps,           \* history: the list learnerSteps was filtered from
    lastEval,           \* history: the last evaluation of the tracker
    scrollTop,          \* the top of the scrollTo call of the last step, in half pixels
    clientHeight,       \* scrollContainerRef.current.clientHeight
    isRunning,          \* a checkCode call of handleMainAction is awaited
    phase,              \* Landing: 'INPUT' | 'DREAMING' | 'DESIGN' | 'BUILDING'
    prompt,             \* Landing: the prompt typed
    loadingLog,         \* Landing: number of lines of the loading log
    ticker,             \* Landing: the interval of the loading-log effect
    previewCall,        \* generateProjectPreview awaited by handleInitialSubmit
    courseCall,         \* generateCourse awaited by handleGenerate, and who called
    isGenerating,       \* App
    logEffectDue,       \* Landing: the loading-log effect is still to run
    failure             \* history: how the generation that failed last was reached

vars ==
    << view, currentLesson, course, settings, code, learnerSteps,
       currentStepIndex, learnerModeActive, isLoadingSteps, highlightLine,
       checkResult, learnerFeedback, pendingSteps, rendered, effects,
       completions, emitted, cause, stepsOf, rawSteps, lastEval, scrollTop,
       clientHeight, isRunning, phase, prompt, loadingLog, ticker,
       previewCall, courseCall, isGenerating, logEffectDue, failure >>

\* Landing and the generation state of App
landingVars ==
    << phase, prompt, loadingLog, ticker, previewCall, courseCall,
       isGenerating, logEffectDue, failure >>

appVars == << view, currentLesson, course, settings >>

history == << cause, stepsOf, rawSteps, lastEval >>

\* scrollTop when the step made no scrollTo call
NoScroll == -1

NullLine == -1

NoEval == [evaluated |-> FALSE]

NoPending == [l \in Lessons |-> 0]

RECURSIVE sumUpTo(_, _)
sumUpTo(f, n) == IF n = 0 THEN 0 ELSE f[n] + sumUpTo(f, n - 1)

pendingCount == sumUpTo(pendingSteps, Cardinality(Lessons))

NoRender == [mounted |-> FALSE]

\* the values the effect closures and dependency lists of a render read
Snap ==
    [ mounted |-> TRUE, lesson |-> currentLesson, settings |-> settings,
      code |-> code, learnerSteps |-> learnerSteps,
      currentStepIndex |-> currentStepIndex,
      learnerModeActive |-> learnerModeActive ]

\* effects in declaration order
EffectOrder == <<"lesson", "guidance", "validation">>

\* mutant: the guidance effect depends on learnerModeActive alone
depsChangedNoIndex(e, old, new) ==
    IF ~old.mounted THEN TRUE
    ELSE CASE e = "lesson" ->
                 \/ old.lesson # new.lesson
                 \/ old.settings.showInsertionHints # new.settings.showInsertionHints
                 \/ old.settings.learnerMode # new.settings.learnerMode
           [] e = "guidance" ->
                 old.learnerModeActive # new.learnerModeActive
           [] e = "validation" ->
                 \/ old.code # new.code
                 \/ old.learnerModeActive # new.learnerModeActive
                 \/ old.currentStepIndex # new.currentStepIndex
                 \/ old.learnerSteps # new.learnerSteps
                 \/ old.lesson # new.lesson
                 \/ old.settings # new.settings

\* mutant: the validation effect does not depend on currentStepIndex
depsChangedValidationNoIndex(e, old, new) ==
    IF ~old.mounted THEN TRUE
    ELSE CASE e = "lesson" ->
                 \/ old.lesson # new.lesson
                 \/ old.settings.showInsertionHints # new.settings.showInsertionHints
                 \/ old.settings.learnerMode # new.settings.learnerMode
           [] e = "guidance" ->
                 \/ old.currentStepIndex # new.currentStepIndex
                 \/ old.learnerModeActive # new.learnerModeActive
           [] e = "validation" ->
                 \/ old.code # new.code
                 \/ old.learnerModeActive # new.learnerModeActive
                 \/ old.learnerSteps # new.learnerSteps
                 \/ old.lesson # new.lesson
                 \/ old.settings # new.settings

\* the dependency lists of the three effects
depsChanged(e, old, new) ==
    IF ~old.mounted THEN TRUE
    ELSE CASE e = "lesson" ->
                 \/ old.lesson # new.lesson
                 \/ old.settings.showInsertionHints # new.settings.showInsertionHints
                 \/ old.settings.learnerMode # new.settings.learnerMode
           [] e = "guidance" ->
                 \/ old.currentStepIndex # new.currentStepIndex
                 \/ old.learnerModeActive # new.learnerModeActive
           [] e = "validation" ->
                 \/ old.code # new.code
                 \/ old.learnerModeActive # new.learnerModeActive
                 \/ old.currentStepIndex # new.currentStepIndex
                 \/ old.learnerSteps # new.learnerSteps
                 \/ old.lesson # new.lesson
                 \/ old.settings # new.settings   \* onComplete is a new function on every App render

dirtyEffects(old, new) ==
    {EffectOrder[i] : i \in {j \in 1..Len(EffectOrder) : depsChanged(EffectOrder[j], old, new)}}

\* the effect that runs next
nextEffect ==
    IF effects = {} THEN "none"
    ELSE EffectOrder[CHOOSE i \in 1..Len(EffectOrder) :
             /\ EffectOrder[i] \in effects
             /\ \A j \in 1..(i - 1) : EffectOrder[j] \notin effects]

\* After a handler or an effect: while effects of the committed render remain
\* they run first; then the batched updates are rendered and the effects whose
\* dependencies changed are scheduled.
Commit(rest) ==
    IF rest # {}
    THEN /\ effects' = rest
         /\ rendered' = rendered
    ELSE /\ rendered' = Snap'
         /\ effects' = dirtyEffects(rendered, Snap')

Quiescent == view = "workspace" /\ effects = {}

\* the lesson object the workspace was given
lessonInitialCode(l) == LessonData[l].initialCode
lessonSolutionCode(l) == LessonData[l].solutionCode
lessonSteps(l) == LessonData[l].steps
lessonUserCode(l) == course[l].userCode

\* -------------------------------------------------------------- locator
\* mutant: the insertion marker is looked for before the context
getInsertionLineIndexMarkerFirst(buf, steps, index) ==
    IF index + 1 > Len(steps) THEN NullLine
    ELSE LET step == steps[index + 1]
             idx == indexOf(buf, trim(step.context))
             markerIdx == indexOf(buf, INSERTION_MARKER)
         IN  IF buf = <<>> THEN 0
             ELSE IF markerIdx # -1
                  THEN splitLength(slice(buf, markerIdx)) - 1
             ELSE IF step.context # <<>> /\ idx # -1
                  THEN splitLength(slice(buf, idx + Len(step.context)))
             ELSE splitLength(buf)

\* mutant: the line after the marker, as for a context
getInsertionLineIndexAfterMarker(buf, steps, index) ==
    IF index + 1 > Len(steps) THEN NullLine
    ELSE LET step == steps[index + 1]
             idx == indexOf(buf, trim(step.context))
             markerIdx == indexOf(buf, INSERTION_MARKER)
         IN  IF buf = <<>> THEN 0
             ELSE IF step.context # <<>> /\ idx # -1
                  THEN splitLength(slice(buf, idx + Len(step.context)))
             ELSE IF markerIdx # -1
                  THEN splitLength(slice(buf, markerIdx))
             ELSE splitLength(buf)

getInsertionLineIndex(buf, steps, index) ==
    IF index + 1 > Len(steps) THEN NullLine
    ELSE LET step == steps[index + 1]
             idx == indexOf(buf, trim(step.context))
             markerIdx == indexOf(buf, INSERTION_MARKER)
         IN  IF buf = <<>> THEN 0
             ELSE IF step.context # <<>> /\ idx # -1
                  THEN splitLength(slice(buf, idx + Len(step.context)))
             ELSE IF markerIdx # -1
                  THEN splitLength(slice(buf, markerIdx)) - 1
             ELSE splitLength(buf)

\* ---------------------------------------------------------------- scroll
LINE_HEIGHT == 24

\* the padding above the first line: (line * LINE_HEIGHT) + 24
TopPadding == 24

Max(a, b) == IF a >= b THEN a ELSE b

\* Math.max(0, top - (containerHeight / 2)) of the guidance effect; the
\* division is not an integer division, the result is held in half pixels
guidanceScrollTop(line, containerHeight) ==
    LET top == (line * LINE_HEIGHT) + TopPadding
    IN  Max(0, 2 * top - containerHeight)

\* mutant: the offset is not kept from going below 0
locateScrollTopNoClamp(line, containerHeight) ==
    LET top == (line * LINE_HEIGHT) + TopPadding
    IN  2 * top - containerHeight

\* Math.max(0, top - (containerHeight / 2)) of handleLocateInsertion
locateScrollTop(line, containerHeight) ==
    LET top == (line * LINE_HEIGHT) + TopPadding
    IN  Max(0, 2 * top - containerHeight)

\* heights of the scroll container
ViewportHeights == {47}

\* ----------------------------------------------------------- course map
\* mutant: the first lesson is locked like the others
isLockedFirstToo(l) ==
    LET prevLessonCompleted == l > 1 /\ course[l - 1].completed
    IN  ~prevLessonCompleted /\ ~course[l].completed

\* CourseMap.getNextLesson: the first lesson in course order that is not
\* completed, or null
getNextLesson ==
    LET open == {l \in Lessons : ~course[l].completed}
    IN  IF open = {} THEN NoLesson
        ELSE CHOOSE l \in open : \A k \in open : l <= k

\* CourseMap: a lesson button is disabled while the lesson is locked
isLocked(l) ==
    LET isFirstLesson == l = 1
        prevLessonCompleted == l > 1 /\ course[l - 1].completed
    IN  ~isFirstLesson /\ ~prevLessonCompleted /\ ~course[l].completed

\* ------------------------------------------------------------- tracker
\* learnerSteps[i]: undefined when i is out of range (a step without code,
\* which nothing reads while the guards of the caller hold)
NoStep == Step(<<>>, "undefined", <<>>)

stepAt(steps, i) == IF i + 1 \in 1..Len(steps) THEN steps[i + 1] ELSE NoStep

\* mutant: the effect only tests that learner mode is active
validationReturnsInactive(active, index, steps) == ~active

\* the two early returns of the real-time validation effect
validationReturns(active, index, steps) ==
    \/ ~active
    \/ index >= Len(steps)
    \/ stepAt(steps, index) = NoStep

\* mutant: the white space is not stripped before the comparison
stepMatchesRaw(buf, target) == includes(buf, target.code)

\* normalizedCode.includes(normalizedTarget)
stepMatches(buf, target) == includes(normalize(buf), normalize(target.code))

\* setCurrentStepIndex(prev => prev + 1)
advance(prev) == prev + 1

\* mutant: > for >=
isLastStepStrict(index, steps) == index + 1 > Len(steps)

\* currentStepIndex + 1 >= learnerSteps.length
isLastStep(index, steps) == index + 1 >= Len(steps)

\* mutant: the index is not reset when a step list is installed
keepIndex(prev) == prev

\* setCurrentStepIndex(0) in initializeLearnerMode
installIndex(prev) == 0

\* mutant: <= for < in the test that chooses the step panel
hudInclusive(active, loading, index, steps) ==
    IF ~active THEN "instructions"
    ELSE IF loading THEN "loading"
    ELSE IF index <= Len(steps) THEN "step"
    ELSE "complete"

\* what the learner-mode panel of the guide shows
hud(active, loading, index, steps) ==
    IF ~active THEN "instructions"
    ELSE IF loading THEN "loading"
    ELSE IF index < Len(steps) THEN "step"
    ELSE "complete"

FeedbackNext == "Excellent! Next step unlocked."

\* ---------------------------------------------------------------- landing
\* the prompts of the input phase: none, blank, and a prompt
Prompts == { <<>>, <<" ">>, <<"p">> }

\* the lines of the two loading logs
DreamingLogs == 5
BuildingLogs == 7

\* no interval is running
NoTicker == [logs |-> 0, i |-> 0]

\* Landing is not on screen and nothing is awaited
LandingIdle ==
    /\ phase = "INPUT"
    /\ prompt = <<>>
    /\ loadingLog = 0
    /\ ticker = NoTicker
    /\ previewCall = "none"
    /\ courseCall = "none"
    /\ isGenerating = FALSE
    /\ logEffectDue = FALSE
    /\ failure = "none"

\* ------------------------------------------------------------------ Init
Init ==
    /\ view = "map"
    /\ currentLesson = NoLesson
    /\ course \in SavedCourses
    /\ settings \in SettingsSet
    /\ code = <<>>
    /\ learnerSteps = <<>>
    /\ currentStepIndex = 0
    /\ learnerModeActive = FALSE
    /\ isLoadingSteps = FALSE
    /\ highlightLine = NullLine
    /\ checkResult = "null"
    /\ learnerFeedback = ""
    /\ pendingSteps = NoPending
    /\ rendered = NoRender
    /\ effects = {}
    /\ completions = 0
    /\ emitted = 0
    /\ cause = "none"
    /\ stepsOf = NoLesson
    /\ rawSteps = <<>>
    /\ lastEval = NoEval
    /\ scrollTop = NoScroll
    /\ clientHeight \in ViewportHeights
    /\ isRunning = FALSE
    /\ LandingIdle

\* the workspace leaves the screen: its state, effects and awaited calls go
Unmount ==
    /\ rendered' = NoRender
    /\ effects' = {}
    /\ pendingSteps' = NoPending
    /\ scrollTop' = NoScroll

\* the lesson/settings effect of lesson l under settings s reaches the await
\* of initializeLearnerMode
startsGeneration(l, s) ==
    s.learnerMode /\ lessonSolutionCode(l) # <<>> /\ lessonSteps(l) = <<>>

\* --------------------------------------------------------- host handlers
\* App.handleSelectLesson, the onSelectLesson of the course map; the
\* workspace is mounted with the useState initial values
handleSelectLesson(l, why) ==
    /\ view = "map"
    /\ completions < MaxCompletions
    /\ currentLesson' = l
    /\ view' = "workspace"
    /\ code' = (IF lessonUserCode(l) # <<>> THEN lessonUserCode(l)
                ELSE lessonInitialCode(l))
    /\ learnerSteps' = <<>>
    /\ currentStepIndex' = 0
    /\ learnerModeActive' = settings.learnerMode
    /\ learnerFeedback' = ""
    /\ isLoadingSteps' = FALSE
    /\ highlightLine' = NullLine
    /\ checkResult' = "null"
    /\ pendingSteps' = NoPending
    /\ emitted' = 0
    /\ cause' = why
    /\ stepsOf' = NoLesson
    /\ rawSteps' = <<>>
    /\ lastEval' = NoEval
    /\ scrollTop' = NoScroll
    /\ isRunning' = FALSE
    /\ UNCHANGED << course, settings, completions, clientHeight, landingVars >>
    /\ Commit({})

\* the button of lesson l on the course map: !isLocked && onSelectLesson(lesson)
SelectLesson(l) ==
    /\ ~isLocked(l)
    /\ handleSelectLesson(l, "mount")

\* CourseMap.handleResume: if (nextLesson) onSelectLesson(nextLesson)
Resume ==
    /\ getNextLesson # NoLesson
    /\ handleSelectLesson(getNextLesson, "resume")

\* the lesson prop of a mounted workspace is replaced by another lesson of
\* the course (the lesson-change notification of the host)
LessonChange(l) ==
    /\ Quiescent
    /\ l # currentLesson
    /\ pendingCount < MaxPending \/ ~startsGeneration(l, settings)
    /\ currentLesson' = l
    /\ emitted' = 0
    /\ cause' = "lesson"
    /\ UNCHANGED << view, course, settings, code, learnerSteps,
                    currentStepIndex, learnerModeActive, isLoadingSteps,
                    highlightLine, checkResult, learnerFeedback, pendingSteps,
                    completions, stepsOf, rawSteps, lastEval, clientHeight, isRunning, landingVars >>
    /\ scrollTop' = NoScroll
    /\ Commit({})

\* App.handleUpdateSettings
SettingsChange(s) ==
    /\ s # settings
    /\ settings' = s
    /\ UNCHANGED << view, currentLesson, course, code, learnerSteps,
                    currentStepIndex, learnerModeActive, isLoadingSteps,
                    highlightLine, checkResult, learnerFeedback, pendingSteps,
                    completions, emitted, stepsOf, rawSteps, lastEval, clientHeight, isRunning, landingVars >>
    /\ scrollTop' = NoScroll
    /\ \/ /\ view = "map"
          /\ UNCHANGED << rendered, effects, cause >>
       \/ /\ Quiescent
          /\ pendingCount < MaxPending \/ ~startsGeneration(currentLesson, s)
          /\ cause' = (IF s.learnerMode /\ ~settings.learnerMode THEN "learnerOn"
                       ELSE IF s.learnerMode # settings.learnerMode THEN "learnerOff"
                       ELSE "hints")
          /\ Commit({})

\* App.handleBackToMap
BackToMap ==
    /\ Quiescent
    /\ view' = "map"
    /\ currentLesson' = NoLesson
    /\ Unmount
    /\ UNCHANGED << course, settings, code, learnerSteps, currentStepIndex,
                    learnerModeActive, isLoadingSteps, highlightLine,
                    checkResult, learnerFeedback, completions, emitted,
                    history, clientHeight, isRunning, landingVars >>

\* ------------------------------------------------------- editor handlers
\* textarea onChange (also the other setCode callers: Enter key, AI edit)
BufferChange(v) ==
    /\ Quiescent
    /\ v # code
    /\ code' = v
    /\ UNCHANGED << appVars, learnerSteps, currentStepIndex, learnerModeActive,
                    isLoadingSteps, highlightLine, checkResult,
                    learnerFeedback, pendingSteps, completions, emitted,
                    history, clientHeight, isRunning, landingVars >>
    /\ scrollTop' = NoScroll
    /\ Commit({})

\* mutant: Reset Code also takes the learner back to the first step
ResetCodeAndProgress ==
    /\ Quiescent
    /\ code' = lessonInitialCode(currentLesson)
    /\ code' # code
    /\ currentStepIndex' = 0
    /\ UNCHANGED << appVars, learnerSteps, learnerModeActive,
                    isLoadingSteps, highlightLine, checkResult,
                    learnerFeedback, pendingSteps, completions, emitted,
                    history, clientHeight, isRunning, landingVars >>
    /\ scrollTop' = NoScroll
    /\ Commit({})

\* the Reset Code button
ResetCode ==
    /\ Quiescent
    /\ code' = lessonInitialCode(currentLesson)
    /\ code' # code
    /\ UNCHANGED << appVars, learnerSteps, currentStepIndex, learnerModeActive,
                    isLoadingSteps, highlightLine, checkResult,
                    learnerFeedback, pendingSteps, completions, emitted,
                    history, clientHeight, isRunning, landingVars >>
    /\ scrollTop' = NoScroll
    /\ Commit({})

\* setTimeout(() => setLearnerFeedback(""), 2000)
ClearFeedback ==
    /\ Quiescent
    /\ learnerFeedback # ""
    /\ learnerFeedback' = ""
    /\ UNCHANGED << appVars, code, learnerSteps, currentStepIndex,
                    learnerModeActive, isLoadingSteps, highlightLine,
                    checkResult, pendingSteps, completions, emitted, history, clientHeight, isRunning, landingVars >>
    /\ scrollTop' = NoScroll
    /\ Commit({})

\* --------------------------------------------------------------- effects
\* useEffect(..., [lesson, settings.showInsertionHints, settings.learnerMode])
\* with the call of initializeLearnerMode up to its await
LessonEffect ==
    /\ view = "workspace"
    /\ nextEffect = "lesson"
    /\ LET l == rendered.lesson
           st == rendered.settings
       IN  /\ code' = initialCodeFor(lessonUserCode(l), lessonInitialCode(l),
                                     st.showInsertionHints)
           /\ checkResult' = "null"
           /\ learnerModeActive' = st.learnerMode
           /\ IF st.learnerMode /\ lessonSolutionCode(l) # <<>>
              THEN IF lessonSteps(l) # <<>>
                   THEN \* no await is reached: the steps are installed at once
                        /\ learnerSteps' = filterSteps(lessonSteps(l))
                        /\ currentStepIndex' = installIndex(currentStepIndex)
                        /\ learnerFeedback' = ""
                        /\ isLoadingSteps' = FALSE
                        /\ stepsOf' = l
                        /\ rawSteps' = lessonSteps(l)
                        /\ UNCHANGED pendingSteps
                   ELSE /\ isLoadingSteps' = TRUE
                        /\ pendingSteps' = [pendingSteps EXCEPT ![l] = @ + 1]
                        /\ UNCHANGED << learnerSteps, currentStepIndex,
                                        learnerFeedback, stepsOf, rawSteps >>
              ELSE UNCHANGED << learnerSteps, currentStepIndex, learnerFeedback,
                                isLoadingSteps, pendingSteps, stepsOf, rawSteps >>
    /\ cause' = "none"
    /\ UNCHANGED << appVars, highlightLine, completions, emitted, lastEval, clientHeight, isRunning, landingVars >>
    /\ scrollTop' = NoScroll
    /\ Commit(effects \ {"lesson"})

\* initializeLearnerMode after its await: generateLearnerSteps has resolved
ResolveSteps(l) ==
    /\ Quiescent
    /\ pendingSteps[l] > 0
    /\ \E raw \in generateLearnerSteps(lessonSolutionCode(l)) :
           /\ learnerSteps' = filterSteps(raw)
           /\ rawSteps' = raw
    /\ currentStepIndex' = installIndex(currentStepIndex)
    /\ learnerFeedback' = ""
    /\ isLoadingSteps' = FALSE
    /\ pendingSteps' = [pendingSteps EXCEPT ![l] = @ - 1]
    /\ stepsOf' = l
    /\ UNCHANGED << appVars, code, learnerModeActive, highlightLine,
                    checkResult, completions, emitted, cause, lastEval, clientHeight, isRunning, landingVars >>
    /\ scrollTop' = NoScroll
    /\ Commit({})

\* useEffect(..., [currentStepIndex, learnerModeActive])
GuidanceEffect ==
    /\ view = "workspace"
    /\ nextEffect = "guidance"
    /\ LET line == getInsertionLineIndex(rendered.code, rendered.learnerSteps,
                                         rendered.currentStepIndex)
       IN  IF rendered.learnerModeActive
           THEN /\ highlightLine' = line
                /\ scrollTop' = (IF line # NullLine
                                 THEN guidanceScrollTop(line, clientHeight)
                                 ELSE NoScroll)
           ELSE /\ highlightLine' = NullLine
                /\ scrollTop' = NoScroll
    /\ UNCHANGED << appVars, code, learnerSteps, currentStepIndex,
                    learnerModeActive, isLoadingSteps, checkResult,
                    learnerFeedback, pendingSteps, completions, emitted,
                    history, clientHeight, isRunning, landingVars >>
    /\ Commit(effects \ {"guidance"})

\* the Locate button of the step panel
handleLocateInsertion ==
    /\ Quiescent
    /\ hud(learnerModeActive, isLoadingSteps, currentStepIndex, learnerSteps)
         = "step"
    /\ LET line == getInsertionLineIndex(rendered.code, rendered.learnerSteps,
                                         rendered.currentStepIndex)
       IN  scrollTop' = (IF line # NullLine
                         THEN locateScrollTop(line, clientHeight)
                         ELSE NoScroll)
    /\ UNCHANGED << appVars, code, learnerSteps, currentStepIndex,
                    learnerModeActive, isLoadingSteps, highlightLine,
                    checkResult, learnerFeedback, pendingSteps, rendered,
                    effects, completions, emitted, history, clientHeight, isRunning, landingVars >>

\* mutant: every lesson of the course is marked, not only the one named
handleCompleteLessonAll(lessonId, userCode) ==
    /\ course' = [l \in Lessons |-> [completed |-> TRUE, userCode |-> userCode]]
    /\ view' = "map"
    /\ currentLesson' = NoLesson

\* App.handleCompleteLesson, the onComplete of the workspace
handleCompleteLesson(lessonId, userCode) ==
    /\ course' = [course EXCEPT ![lessonId] =
                      [completed |-> TRUE, userCode |-> userCode]]
    /\ view' = "map"
    /\ currentLesson' = NoLesson

\* mutant: the Submit button is rendered in learner mode as well
submitOfferedAlways(active, running) == ~running

\* {!learnerModeActive && <button onClick={handleMainAction}
\* disabled={isRunning}>}
submitOffered(active, running) == ~active /\ ~running

\* handleMainAction up to its await: the Next Lesson / Submit button
handleMainAction ==
    /\ Quiescent
    /\ submitOffered(learnerModeActive, isRunning)
    /\ IF checkResult = "passed"
       THEN /\ handleCompleteLesson(currentLesson, code)
            /\ completions' = completions + 1
            /\ emitted' = emitted + 1
            /\ Unmount
            /\ UNCHANGED << settings, code, learnerSteps, currentStepIndex,
                            learnerModeActive, isLoadingSteps, highlightLine,
                            checkResult, learnerFeedback, history,
                            clientHeight, isRunning, landingVars >>
       ELSE /\ isRunning' = TRUE
            /\ checkResult' = "null"
            /\ scrollTop' = NoScroll
            /\ UNCHANGED << appVars, code, learnerSteps, currentStepIndex,
                            learnerModeActive, isLoadingSteps, highlightLine,
                            learnerFeedback, pendingSteps, completions,
                            emitted, history, clientHeight, landingVars >>
            /\ Commit({})

\* what checkCode resolves to: passed is what the model answers, and false
\* when the call or the parse fails
CheckResults == {"passed", "failed"}

\* handleMainAction after its await: checkCode has resolved
ResolveCheck(result) ==
    /\ Quiescent
    /\ isRunning
    /\ checkResult' = result
    /\ isRunning' = FALSE
    /\ scrollTop' = NoScroll
    /\ UNCHANGED << appVars, code, learnerSteps, currentStepIndex,
                    learnerModeActive, isLoadingSteps, highlightLine,
                    learnerFeedback, pendingSteps, completions, emitted,
                    history, clientHeight, landingVars >>
    /\ Commit({})

\* history: what an evaluation of the tracker read and whether it advanced
evalRecord(r, hit) ==
    [ evaluated |-> TRUE, code |-> r.code, steps |-> r.learnerSteps,
      index |-> r.currentStepIndex, advanced |-> hit,
      repeat |-> /\ lastEval.evaluated
                 /\ lastEval.code = r.code
                 /\ lastEval.steps = r.learnerSteps ]

\* mutant: a step that is passed is taken off the step list
\* Real-time validation:
\* useEffect(..., [code, learnerModeActive, currentStepIndex, learnerSteps,
\*                 lesson.id, onComplete])
ValidationEffectConsuming ==
    /\ view = "workspace"
    /\ nextEffect = "validation"
    /\ UNCHANGED << settings, code, learnerModeActive,
                    isLoadingSteps, highlightLine, cause, stepsOf, rawSteps,
                    clientHeight, isRunning, landingVars >>
    /\ LET r == rendered
           currentTarget == stepAt(r.learnerSteps, r.currentStepIndex)
       IN  IF validationReturns(r.learnerModeActive, r.currentStepIndex,
                                r.learnerSteps)
           THEN /\ lastEval' = NoEval
                /\ learnerSteps' = learnerSteps
                /\ UNCHANGED << view, currentLesson, course, currentStepIndex,
                                learnerFeedback, checkResult, pendingSteps,
                                completions, emitted >>
                /\ scrollTop' = NoScroll
                /\ Commit(effects \ {"validation"})
           ELSE IF ~stepMatches(r.code, currentTarget)
           THEN /\ lastEval' = evalRecord(r, FALSE)
                /\ learnerSteps' = learnerSteps
                /\ UNCHANGED << view, currentLesson, course, currentStepIndex,
                                learnerFeedback, checkResult, pendingSteps,
                                completions, emitted >>
                /\ scrollTop' = NoScroll
                /\ Commit(effects \ {"validation"})
           ELSE /\ lastEval' = evalRecord(r, TRUE)
                /\ learnerSteps' = Tail(learnerSteps)
                /\ currentStepIndex' = advance(currentStepIndex)
                /\ learnerFeedback' = FeedbackNext
                /\ IF isLastStep(r.currentStepIndex, r.learnerSteps)
                   THEN /\ checkResult' = "passed"
                        /\ handleCompleteLesson(r.lesson, r.code)
                        /\ completions' = completions + 1
                        /\ emitted' = emitted + 1
                        /\ Unmount
                   ELSE /\ UNCHANGED << view, currentLesson, course, checkResult,
                                        pendingSteps, completions, emitted >>
                        /\ scrollTop' = NoScroll
                        /\ Commit(effects \ {"validation"})

\* Real-time validation:
\* useEffect(..., [code, learnerModeActive, currentStepIndex, learnerSteps,
\*                 lesson.id, onComplete])
ValidationEffect ==
    /\ view = "workspace"
    /\ nextEffect = "validation"
    /\ UNCHANGED << settings, code, learnerSteps, learnerModeActive,
                    isLoadingSteps, highlightLine, cause, stepsOf, rawSteps,
                    clientHeight, isRunning, landingVars >>
    /\ LET r == rendered
           currentTarget == stepAt(r.learnerSteps, r.currentStepIndex)
       IN  IF validationReturns(r.learnerModeActive, r.currentStepIndex,
                                r.learnerSteps)
           THEN /\ lastEval' = NoEval
                /\ UNCHANGED << view, currentLesson, course, currentStepIndex,
                                learnerFeedback, checkResult, pendingSteps,
                                completions, emitted >>
                /\ scrollTop' = NoScroll
                /\ Commit(effects \ {"validation"})
           ELSE IF ~stepMatches(r.code, currentTarget)
           THEN /\ lastEval' = evalRecord(r, FALSE)
                /\ UNCHANGED << view, currentLesson, course, currentStepIndex,
                                learnerFeedback, checkResult, pendingSteps,
                                completions, emitted >>
                /\ scrollTop' = NoScroll
                /\ Commit(effects \ {"validation"})
           ELSE /\ lastEval' = evalRecord(r, TRUE)
                /\ currentStepIndex' = advance(currentStepIndex)
                /\ learnerFeedback' = FeedbackNext
                /\ IF isLastStep(r.currentStepIndex, r.learnerSteps)
                   THEN /\ checkResult' = "passed"
                        /\ handleCompleteLesson(r.lesson, r.code)
                        /\ completions' = completions + 1
                        /\ emitted' = emitted + 1
                        /\ Unmount
                   ELSE /\ UNCHANGED << view, currentLesson, course, checkResult,
                                        pendingSteps, completions, emitted >>
                        /\ scrollTop' = NoScroll
                        /\ Commit(effects \ {"validation"})

\* ---------------------------------------------------- landing handlers
\* everything of the workspace, which is not on screen
workspaceVars ==
    << currentLesson, settings, code, learnerSteps, currentStepIndex,
       learnerModeActive, isLoadingSteps, highlightLine, checkResult,
       learnerFeedback, pendingSteps, rendered, effects, completions, emitted,
       cause, stepsOf, rawSteps, lastEval, scrollTop, clientHeight, isRunning >>

\* Landing is on screen and its effect has run
LandingQuiet == view = "landing" /\ ~logEffectDue

\* Landing is mounted with the useState initial values; the effect is due
MountLanding ==
    /\ phase' = "INPUT"
    /\ prompt' = <<>>
    /\ loadingLog' = 0
    /\ ticker' = NoTicker
    /\ logEffectDue' = TRUE

\* Landing leaves the screen: the cleanup clears the interval, and a preview
\* that is awaited will settle on a component that is gone
UnmountLanding ==
    /\ ticker' = NoTicker
    /\ logEffectDue' = FALSE
    /\ previewCall' = (IF previewCall = "pending" THEN "stale" ELSE previewCall)
    /\ UNCHANGED << phase, prompt, loadingLog >>

\* the prompt input: onChange={(e) => setPrompt(e.target.value)}
SetPrompt(p) ==
    /\ LandingQuiet
    /\ phase = "INPUT"
    /\ p # prompt
    /\ prompt' = p
    /\ UNCHANGED << phase, loadingLog, ticker, previewCall, courseCall,
                    isGenerating, logEffectDue, failure >>
    /\ UNCHANGED << view, course, workspaceVars >>

\* handleInitialSubmit up to its await; one preview is awaited at a time
handleInitialSubmit ==
    /\ LandingQuiet
    /\ phase = "INPUT"
    /\ trim(prompt) # <<>>
    /\ previewCall = "none"
    /\ phase' = "DREAMING"
    /\ previewCall' = "pending"
    /\ logEffectDue' = TRUE
    /\ failure' = "none"
    /\ UNCHANGED << prompt, loadingLog, ticker, courseCall, isGenerating >>
    /\ UNCHANGED << view, course, workspaceVars >>

\* handleInitialSubmit after its await: generateProjectPreview has resolved
PreviewResolves ==
    /\ previewCall # "none"
    /\ view = "landing" => ~logEffectDue
    /\ previewCall' = "none"
    /\ IF previewCall = "pending"
       THEN /\ phase' = "DESIGN"
            /\ logEffectDue' = TRUE
       ELSE UNCHANGED << phase, logEffectDue >>
    /\ UNCHANGED << prompt, loadingLog, ticker, courseCall, isGenerating,
                    failure >>
    /\ UNCHANGED << view, course, workspaceVars >>

\* App.handleGenerate up to its await; one course is awaited at a time
handleGenerate(caller) ==
    /\ courseCall = "none"
    /\ isGenerating' = TRUE
    /\ courseCall' = caller

\* the catch branch of handleInitialSubmit: generateProjectPreview has
\* rejected and onGenerate is called without a visual context
PreviewRejects ==
    /\ previewCall # "none"
    /\ view = "landing" => ~logEffectDue
    /\ previewCall' = "none"
    /\ handleGenerate("shortcut")
    /\ logEffectDue' = (view = "landing")
    /\ UNCHANGED << phase, prompt, loadingLog, ticker, failure >>
    /\ UNCHANGED << view, course, workspaceVars >>

\* handleStartCourse, the Start Building This button of the design phase
handleStartCourse ==
    /\ LandingQuiet
    /\ phase = "DESIGN"
    /\ phase' = "BUILDING"
    /\ handleGenerate("design")
    /\ logEffectDue' = TRUE
    /\ failure' = "none"
    /\ UNCHANGED << prompt, loadingLog, ticker, previewCall >>
    /\ UNCHANGED << view, course, workspaceVars >>

\* App.handleGenerate after its await: generateCourse has resolved
CourseResolves ==
    /\ courseCall # "none"
    /\ view = "landing" => ~logEffectDue
    /\ course' = FreshCourse
    /\ view' = "map"
    /\ isGenerating' = FALSE
    /\ courseCall' = "none"
    /\ UnmountLanding
    /\ UNCHANGED << failure, workspaceVars >>

\* App.handleGenerate: generateCourse has rejected (catch, then finally)
CourseRejects ==
    /\ courseCall # "none"
    /\ view = "landing" => ~logEffectDue
    /\ isGenerating' = FALSE
    /\ courseCall' = "none"
    /\ failure' = courseCall
    /\ logEffectDue' = (view = "landing")
    /\ UNCHANGED << phase, prompt, loadingLog, ticker, previewCall >>
    /\ UNCHANGED << view, course, workspaceVars >>

\* useEffect(..., [phase, isGenerating]) of Landing: the loading log
LoadingLogEffect ==
    /\ view = "landing"
    /\ logEffectDue
    /\ IF phase = "DREAMING"
       THEN /\ loadingLog' = 0
            /\ ticker' = [logs |-> DreamingLogs, i |-> 0]
            /\ logEffectDue' = FALSE
            /\ UNCHANGED phase
       ELSE IF isGenerating \/ phase = "BUILDING"
       THEN /\ phase' = "BUILDING"
            /\ loadingLog' = 0
            /\ ticker' = [logs |-> BuildingLogs, i |-> 0]
            /\ logEffectDue' = (phase # "BUILDING")
       ELSE /\ ticker' = NoTicker
            /\ logEffectDue' = FALSE
            /\ UNCHANGED << phase, loadingLog >>
    /\ UNCHANGED << prompt, previewCall, courseCall, isGenerating, failure >>
    /\ UNCHANGED << view, course, workspaceVars >>

\* the callback of setInterval(..., 800) while it has a line to add
LogTick ==
    /\ LandingQuiet
    /\ ticker.i < ticker.logs
    /\ loadingLog' = loadingLog + 1
    /\ ticker' = [ticker EXCEPT !.i = @ + 1]
    /\ UNCHANGED << phase, prompt, previewCall, courseCall, isGenerating,
                    logEffectDue, failure >>
    /\ UNCHANGED << view, course, workspaceVars >>

\* App.handleLogout, from the settings panel of Landing
handleLogout ==
    /\ LandingQuiet
    /\ view' = "auth"
    /\ UnmountLanding
    /\ UNCHANGED << courseCall, isGenerating, failure >>
    /\ UNCHANGED << course, workspaceVars >>

\* Auth.onLogin: setView('landing')
onLogin ==
    /\ view = "auth"
    /\ view' = "landing"
    /\ MountLanding
    /\ UNCHANGED << previewCall, courseCall, isGenerating, failure >>
    /\ UNCHANGED << course, workspaceVars >>

\* CourseMap.onBack: setView('landing')
onBack ==
    /\ view = "map"
    /\ view' = "landing"
    /\ MountLanding
    /\ UNCHANGED << previewCall, courseCall, isGenerating, failure >>
    /\ UNCHANGED << course, workspaceVars >>

\* the user is on Landing, logged in, with no course
LandingInit ==
    /\ view = "landing"
    /\ currentLesson = NoLesson
    /\ course = FreshCourse
    /\ settings \in SettingsSet
    /\ code = <<>>
    /\ learnerSteps = <<>>
    /\ currentStepIndex = 0
    /\ learnerModeActive = FALSE
    /\ isLoadingSteps = FALSE
    /\ highlightLine = NullLine
    /\ checkResult = "null"
    /\ learnerFeedback = ""
    /\ pendingSteps = NoPending
    /\ rendered = NoRender
    /\ effects = {}
    /\ completions = 0
    /\ emitted = 0
    /\ cause = "none"
    /\ stepsOf = NoLesson
    /\ rawSteps = <<>>
    /\ lastEval = NoEval
    /\ scrollTop = NoScroll
    /\ clientHeight \in ViewportHeights
    /\ isRunning = FALSE
    /\ phase = "INPUT"
    /\ prompt = <<>>
    /\ loadingLog = 0
    /\ ticker = NoTicker
    /\ previewCall = "none"
    /\ courseCall = "none"
    /\ isGenerating = FALSE
    /\ logEffectDue = TRUE
    /\ failure = "none"

LandingNext ==
    \/ \E p \in Prompts : SetPrompt(p)
    \/ handleInitialSubmit
    \/ PreviewResolves
    \/ PreviewRejects
    \/ handleStartCourse
    \/ CourseResolves
    \/ CourseRejects
    \/ LoadingLogEffect
    \/ LogTick
    \/ handleLogout
    \/ onLogin
    \/ onBack

\* effects that are due run, an interval ticks, and an awaited call settles
SpecLanding ==
    /\ LandingInit /\ [][LandingNext]_vars
    /\ WF_vars(LoadingLogEffect)
    /\ WF_vars(LogTick)
    /\ WF_vars(PreviewResolves \/ PreviewRejects)
    /\ WF_vars(CourseResolves \/ CourseRejects)

\* ------------------------------------------------------------------ Next
Next ==
    \/ \E l \in Lessons : SelectLesson(l)
    \/ Resume
    \/ \E l \in Lessons : LessonChange(l)
    \/ \E s \in SettingsSet : SettingsChange(s)
    \/ BackToMap
    \/ \E v \in BufferPool : BufferChange(v)
    \/ ResetCode
    \/ ClearFeedback
    \/ LessonEffect
    \/ \E l \in Lessons : ResolveSteps(l)
    \/ GuidanceEffect
    \/ ValidationEffect
    \/ handleLocateInsertion

Spec == Init /\ [][Next]_vars

\* the workspace as the App drives it: a lesson is shown from the course
\* map until it is completed or left, and the Submit button is there
AppNext ==
    \/ \E l \in Lessons : SelectLesson(l)
    \/ Resume
    \/ \E s \in SettingsSet : SettingsChange(s)
    \/ BackToMap
    \/ \E v \in BufferPool : BufferChange(v)
    \/ ResetCode
    \/ ClearFeedback
    \/ LessonEffect
    \/ \E l \in Lessons : ResolveSteps(l)
    \/ GuidanceEffect
    \/ ValidationEffect
    \/ handleLocateInsertion
    \/ handleMainAction
    \/ \E result \in CheckResults : ResolveCheck(result)

SpecApp == Init /\ [][AppNext]_vars

TypeOK ==
    /\ view \in {"auth", "landing", "map", "workspace"}
    /\ currentLesson \in Lessons \cup {NoLesson}
    /\ currentStepIndex \in Nat
    /\ effects \subseteq {"lesson", "guidance", "validation"}

\* ================================================================ claims
\* the real-time validation effect is the step that is taken next
Evaluating == view = "workspace" /\ nextEffect = "validation"

\* ... and it passes its guards: learner mode active at a non-terminal index
EvaluatingStep ==
    /\ Evaluating
    /\ rendered.learnerModeActive
    /\ rendered.currentStepIndex < Len(rendered.learnerSteps)

\* a buffer-change evaluation: an edit of the buffer, Reset Code, or the
\* evaluation of the tracker
BufferStep ==
    \/ ValidationEffect
    \/ \E v \in BufferPool : BufferChange(v)
    \/ ResetCode

\* C1: an evaluation at a non-terminal index i with learner mode active moves
\* the index to i+1 exactly when the buffer without its white space contains
\* the code of steps[i] without its white space; otherwise the index stays and
\* nothing is emitted.  The index never moves by more than one.
C1_StepRule ==
    [][ EvaluatingStep =>
          LET i == rendered.currentStepIndex
              target == normalize(rendered.learnerSteps[i + 1].code)
              current == normalize(rendered.code)
          IN  IF includes(current, target)
              THEN currentStepIndex = i /\ currentStepIndex' = i + 1
              ELSE /\ currentStepIndex' = currentStepIndex
                   /\ emitted' = emitted
                   /\ completions' = completions
                   /\ learnerFeedback' = learnerFeedback
                   /\ view' = view ]_vars

\* lesson 1, two steps: the buffer "a" holds the text of step 0 only, the
\* index went to 1 and the evaluation at index 1 left it there
C1_Witness ==
    /\ Quiescent
    /\ learnerModeActive
    /\ currentLesson = 1 /\ stepsOf = 1
    /\ Len(learnerSteps) = 2
    /\ code = <<"a">>
    /\ currentStepIndex = 1
    /\ lastEval.evaluated /\ ~lastEval.advanced /\ lastEval.index = 1

\* C2: for a fixed step list the index never decreases over buffer changes
\* (deleting matched text included), Reset Code and the evaluations they cause.
C2_Monotonic ==
    [][ BufferStep =>
          /\ learnerSteps' = learnerSteps
          /\ currentStepIndex' >= currentStepIndex ]_vars

\* step 0 of lesson 1 was matched and its text is gone from the buffer again
\* (the buffer is the lesson's initial code, as after Reset Code)
C2_Witness ==
    /\ Quiescent
    /\ learnerModeActive
    /\ currentLesson = 1 /\ stepsOf = 1
    /\ currentStepIndex = 1
    /\ code = lessonInitialCode(1)
    /\ ~includes(normalize(code), normalize(learnerSteps[1].code))
    /\ lastEval.evaluated /\ lastEval.code = code

\* C3: once the index equals the number of steps, no buffer change and no
\* evaluation changes it.
C3_TerminalStable ==
    [][ (currentStepIndex = Len(learnerSteps) /\ BufferStep) =>
          currentStepIndex' = currentStepIndex ]_vars

\* the generated list of lesson 2 was filtered to nothing (index = N = 0), the
\* learner typed "ab" and the tracker ran without moving the index
C3_Witness ==
    /\ Quiescent
    /\ learnerModeActive /\ ~isLoadingSteps
    /\ currentLesson = 2 /\ stepsOf = 2
    /\ rawSteps # <<>> /\ learnerSteps = <<>>
    /\ currentStepIndex = 0
    /\ code = <<"a", "b">>
    /\ rendered.code = code
    /\ lastEval = NoEval

\* C4: in one lesson session the tracker calls onComplete at most once, and it
\* does so exactly at the evaluation that moves the index to the number of
\* steps; with a single step the first matching buffer advances 0 -> 1 and
\* completes.
C4_CompleteOnce ==
    /\ [](emitted <= 1)
    /\ [][ (emitted' = emitted + 1) <=>
             /\ Evaluating
             /\ currentStepIndex' = currentStepIndex + 1
             /\ currentStepIndex' = Len(learnerSteps') ]_vars

\* a one-step list: the first matching evaluation moved 0 -> 1 and completed
C4_Witness ==
    /\ view = "map"
    /\ emitted = 1
    /\ Len(learnerSteps) = 1
    /\ currentStepIndex = 1
    /\ lastEval.evaluated /\ lastEval.advanced /\ lastEval.index = 0
    /\ \E l \in Lessons : course[l].completed /\ course[l].userCode = lastEval.code

\* C5: in every state 0 <= currentStepIndex <= len(learnerSteps).
C5_IndexInRange ==
    /\ currentStepIndex \in 0..Len(learnerSteps)
    /\ rendered.mounted =>
         rendered.currentStepIndex \in 0..Len(rendered.learnerSteps)

\* a new list is being generated while the index stands at 1 of 2
C5_Witness ==
    /\ Quiescent
    /\ isLoadingSteps /\ pendingCount > 0
    /\ currentStepIndex = 1
    /\ Len(learnerSteps) = 2

\* the evaluation that is due reads the buffer and the step list that the
\* evaluation before it read
Reevaluating ==
    /\ EvaluatingStep
    /\ lastEval.evaluated
    /\ lastEval.code = rendered.code
    /\ lastEval.steps = rendered.learnerSteps

\* C6 as stated: once a buffer has been evaluated, a further evaluation of the
\* same buffer (same step list) leaves the index unchanged.
C6_Original ==
    [][ Reevaluating => currentStepIndex' = currentStepIndex ]_vars

\* C6 as amended: a further evaluation of an unchanged buffer moves the index,
\* by one, exactly when the buffer also contains the code of the step that is
\* current at that evaluation; a step that was passed is not tested again.
C6_Reevaluation ==
    [][ Reevaluating =>
          LET i == rendered.currentStepIndex
              hit == includes(normalize(rendered.code),
                              normalize(rendered.learnerSteps[i + 1].code))
          IN  /\ hit => currentStepIndex' = i + 1
              /\ ~hit => currentStepIndex' = currentStepIndex
              /\ (lastEval.advanced /\ stepsOf' = stepsOf /\ i > 0)
                   => i # lastEval.index ]_vars

\* three steps "b", "a", "ab": the buffer "ba" was evaluated three times with
\* no change in between; two evaluations advanced, the third did not
C6_Witness ==
    /\ Quiescent
    /\ learnerModeActive
    /\ Len(learnerSteps) = 3
    /\ currentStepIndex = 2
    /\ code = <<"b", "a">>
    /\ lastEval.evaluated /\ lastEval.repeat /\ ~lastEval.advanced
    /\ lastEval.index = 2

Installs ==
    \/ \E l \in Lessons : ResolveSteps(l)
    \/ LessonEffect /\ rendered.settings.learnerMode
         /\ lessonSolutionCode(rendered.lesson) # <<>>
         /\ lessonSteps(rendered.lesson) # <<>>

\* C9: when the installed step list is empty the index is 0 = N at once, with
\* no change of the buffer and no onComplete; with learner mode active the
\* guide shows the lesson-complete panel, not the step panel or an error.
C9_EmptyTerminal ==
    [][ (Installs /\ learnerSteps' = <<>>) =>
          /\ currentStepIndex' = 0
          /\ currentStepIndex' = Len(learnerSteps')
          /\ emitted' = emitted /\ view' = view
          /\ learnerModeActive' =>
               hud(learnerModeActive', isLoadingSteps', currentStepIndex',
                   learnerSteps') = "complete" ]_vars

\* the generated steps of lesson 2 were all filtered out; the buffer is still
\* the initial code and the guide shows the lesson-complete panel
C9_Witness ==
    /\ Quiescent
    /\ learnerModeActive /\ ~isLoadingSteps
    /\ currentLesson = 2 /\ stepsOf = 2
    /\ rawSteps # <<>> /\ learnerSteps = <<>>
    /\ currentStepIndex = 0
    /\ code = initialCodeFor(lessonUserCode(2), lessonInitialCode(2),
                             settings.showInsertionHints)
    /\ hud(learnerModeActive, isLoadingSteps, currentStepIndex, learnerSteps)
         = "complete"
    /\ emitted = 0

\* ------------------------------------------------- the step filter alone
\* codes of raw steps: plain code, blank code, and comment markers at the
\* start, at the end and inside
StepCodes ==
    { <<"a">>, <<" ", "a", " ", "b", " ">>, <<>>, <<" ", "\n">>,
      <<"<", "!", "-", "-", "a", "-", "-", ">">>,
      <<" ", "<", "!", "-", "-", "a">>,
      <<"a", "-", "-", ">", " ">>,
      <<"/", "/", "a">>, <<"\t", "/", "*", "a">>,
      <<"a", "/", "/">>, <<"a", "<", "!", "-", "-">>, <<"/", "a">> }

RawInputs == SeqsUpTo({Step(c, "e", <<>>) : c \in StepCodes}, MaxRaw)

\* initializeLearnerMode has its raw steps and has not filtered them yet
FilterInit ==
    /\ view = "workspace"
    /\ currentLesson = 2
    /\ course = FreshCourse
    /\ settings = [learnerMode |-> TRUE, showInsertionHints |-> FALSE]
    /\ code = lessonInitialCode(2)
    /\ learnerSteps = <<>>
    /\ currentStepIndex = 0
    /\ learnerModeActive = TRUE
    /\ isLoadingSteps = TRUE
    /\ highlightLine = NullLine
    /\ checkResult = "null"
    /\ learnerFeedback = ""
    /\ pendingSteps = NoPending
    /\ rendered = NoRender
    /\ effects = {}
    /\ completions = 0
    /\ emitted = 0
    /\ cause = "none"
    /\ stepsOf = NoLesson
    /\ rawSteps \in RawInputs
    /\ lastEval = NoEval
    /\ scrollTop = NoScroll
    /\ clientHeight = 600
    /\ isRunning = FALSE
    /\ LandingIdle

\* initializeLearnerMode from steps.filter to setIsLoadingSteps(false)
ApplyFilter ==
    /\ isLoadingSteps
    /\ learnerSteps' = filterSteps(rawSteps)
    /\ currentStepIndex' = installIndex(currentStepIndex)
    /\ learnerFeedback' = ""
    /\ isLoadingSteps' = FALSE
    /\ stepsOf' = currentLesson
    /\ UNCHANGED << appVars, code, learnerModeActive, highlightLine,
                    checkResult, pendingSteps, rendered, effects, completions,
                    emitted, cause, rawSteps, lastEval, clientHeight, isRunning, landingVars >>
    /\ scrollTop' = NoScroll

FilterNext == ApplyFilter

SpecFilter == FilterInit /\ [][FilterNext]_vars

\* the code between its first and its last character that is not white space
core(c) ==
    LET nz == {i \in 1..Len(c) : c[i] \notin Whitespace}
        lo == CHOOSE i \in nz : \A j \in nz : i <= j
        hi == CHOOSE i \in nz : \A j \in nz : i >= j
    IN  IF nz = {} THEN <<>> ELSE [k \in 1..(hi - lo + 1) |-> c[lo + k - 1]]

hasPrefix(t, p) == Len(t) >= Len(p) /\ \A i \in 1..Len(p) : t[i] = p[i]

hasSuffix(t, p) ==
    Len(t) >= Len(p) /\ \A i \in 1..Len(p) : t[Len(t) - Len(p) + i] = p[i]

Qualifies(st) ==
    LET t == core(st.code)
    IN  /\ t # <<>>
        /\ ~hasPrefix(t, <<"<", "!", "-", "-">>)
        /\ ~hasSuffix(t, <<"-", "-", ">">>)
        /\ ~hasPrefix(t, <<"/", "/">>)
        /\ ~hasPrefix(t, <<"/", "*">>)

\* out is the subsequence of the qualifying elements of in, in order, unchanged
IsQualifyingSubsequence(out, in) ==
    LET keep == {i \in 1..Len(in) : Qualifies(in[i])}
    IN  /\ Len(out) = Cardinality(keep)
        /\ \A k \in 1..Len(out) :
             \E i \in keep : /\ Cardinality({j \in keep : j <= i}) = k
                             /\ out[k] = in[i]

\* C10: the filter returns exactly the input steps whose trimmed code is not
\* empty, does not start with '<!--', does not end with '-->' and does not
\* start with '//' or '/*', in their order and unchanged.
C10_FilterExact ==
    ~isLoadingSteps => IsQualifyingSubsequence(learnerSteps, rawSteps)

\* a comment step '<!--a-->' and a blank step were dropped, ' a b ' survived
C10_Witness ==
    /\ ~isLoadingSteps
    /\ stepsOf = 2
    /\ Len(rawSteps) = 2
    /\ rawSteps[1].code = <<"<", "!", "-", "-", "a", "-", "-", ">">>
    /\ rawSteps[2].code = <<" ", "a", " ", "b", " ">>
    /\ learnerSteps = <<rawSteps[2]>>

\* C11: filtering is idempotent: the list installed by the filter is left as it
\* is by a second application of the filter, filter(filter(steps)) =
\* filter(steps), for every raw list.
C11_FilterIdempotent ==
    ~isLoadingSteps =>
        /\ learnerSteps = filterSteps(rawSteps)
        /\ filterSteps(learnerSteps) = learnerSteps
        /\ filterSteps(filterSteps(rawSteps)) = filterSteps(rawSteps)

\* a list of two steps of which the filter dropped the first, a comment
C11_Witness ==
    /\ ~isLoadingSteps
    /\ Len(rawSteps) = 2
    /\ rawSteps[1].code = <<"/", "/", "a">>
    /\ rawSteps[2].code = <<"a">>
    /\ learnerSteps = <<rawSteps[2]>>
    /\ filterSteps(learnerSteps) = learnerSteps

\* C12: in every reachable state every step of the progress state, and every
\* step the tracker reads, passes the filter predicate and has a code that is
\* not empty once its white space is stripped, whether the steps came with
\* the lesson, from the step source or from the line-per-line fallback.
C12_StepsFiltered ==
    /\ \A i \in 1..Len(learnerSteps) :
           /\ Qualifies(learnerSteps[i])
           /\ SelectSeq(learnerSteps[i].code, LAMBDA c : c \notin Whitespace) # <<>>
    /\ rendered.mounted =>
           \A i \in 1..Len(rendered.learnerSteps) :
              /\ Qualifies(rendered.learnerSteps[i])
              /\ SelectSeq(rendered.learnerSteps[i].code,
                           LAMBDA c : c \notin Whitespace) # <<>>

\* lesson 1 came with five steps; the comment steps and the empty step were
\* dropped before the tracker evaluated the first of the two that are left
C12_Witness ==
    /\ view = "workspace"
    /\ stepsOf = 1
    /\ rawSteps = lessonSteps(1)
    /\ Len(rawSteps) = 5
    /\ learnerSteps = <<rawSteps[1], rawSteps[3]>>
    /\ lastEval.evaluated
    /\ lastEval.steps = learnerSteps

\* the offsets (from 1) at which the lines of a text start
lineStarts(text) == {1} \cup {i + 1 : i \in {j \in 1..Len(text) : text[j] = "\n"}}

\* the line of a text that starts at offset p, without its newline
lineAt(text, p) ==
    LET ends == {j \in p..Len(text) : text[j] = "\n"} \cup {Len(text) + 1}
    IN  SubSeq(text, p, (CHOOSE e \in ends : \A f \in ends : e <= f) - 1)

\* raw holds one step per line of sol that is not blank, in line order, with
\* the line as its code, the generic explanation and no context
IsLinePerLine(raw, sol) ==
    LET nonBlank == {p \in lineStarts(sol) :
                        \E k \in 1..Len(lineAt(sol, p)) :
                            lineAt(sol, p)[k] \notin Whitespace}
    IN  /\ Len(raw) = Cardinality(nonBlank)
        /\ \A k \in 1..Len(raw) :
              \E p \in nonBlank :
                 /\ Cardinality({q \in nonBlank : q <= p}) = k
                 /\ raw[k] = [code |-> lineAt(sol, p),
                              explanation |-> "Type this line.",
                              context |-> <<>>]

\* initializeLearnerMode resumes for lesson l with the steps of the catch
\* branch: the step source delivered no response
FallbackResolves(l) == ResolveSteps(l) /\ rawSteps' \notin AiResponses

\* C13: when the step source fails, generation yields one raw step per
\* non-blank line of the reference solution, in line order, with that line as
\* code and the generic explanation, and initialization completes: loading
\* flag cleared, index 0, the filtered form of that list installed.
C13_Fallback ==
    [][ \A l \in Lessons :
          FallbackResolves(l) =>
             /\ IsLinePerLine(rawSteps', lessonSolutionCode(l))
             /\ ~isLoadingSteps'
             /\ currentStepIndex' = 0
             /\ IsQualifyingSubsequence(learnerSteps', rawSteps') ]_vars

\* lesson 2, solution 'a b', ' ', 'b': the fallback gave the steps 'a b' and
\* 'b', which are installed at index 0
C13_Witness ==
    /\ view = "workspace"
    /\ stepsOf = 2
    /\ rawSteps = << [code |-> <<"a", " ", "b">>, explanation |-> "Type this line.",
                      context |-> <<>>],
                     [code |-> <<"b">>, explanation |-> "Type this line.",
                      context |-> <<>>] >>
    /\ learnerSteps = rawSteps
    /\ ~isLoadingSteps
    /\ currentStepIndex = 0
    /\ lastEval = NoEval

\* ------------------------------------------------ the insertion locator alone
\* buffers: empty, one line, several lines, an anchor on two lines, a newline
\* at the end, newlines only, and the insertion marker alone, between lines,
\* in a body element and on two lines
LocatorBuffers ==
    {
      <<>>,
      <<"a">>,
      <<"a", "\n", "b">>,
      <<"b", "\n", "a", "\n", "b", "\n", "a">>,
      <<"a", "\n">>,
      <<"\n", "\n">>,
      <<"\n", "\n", "\n", "\n", "\n", "\n", "\n", "\n", "\n">>,
      <<"<", "!", "-", "-", " ", "W", "r", "i", "t", "e", " ", "c", "o", "d",
        "e", " ", "h", "e", "r", "e", " ", "-", "-", ">">>,
      <<"a", "\n", " ", " ", "<", "!", "-", "-", " ", "W", "r", "i", "t",
        "e", " ", "c", "o", "d", "e", " ", "h", "e", "r", "e", " ", "-", "-",
        ">", "\n", "b">>,
      <<"<", "b", "o", "d", "y", ">", "\n", " ", " ", "<", "!", "-", "-",
        " ", "W", "r", "i", "t", "e", " ", "c", "o", "d", "e", " ", "h", "e",
        "r", "e", " ", "-", "-", ">", "\n", "<", "/", "b", "o", "d", "y",
        ">">>,
      <<"b", "\n", "<", "!", "-", "-", " ", "W", "r", "i", "t", "e", " ",
        "c", "o", "d", "e", " ", "h", "e", "r", "e", " ", "-", "-", ">",
        "\n", "a", "\n", "<", "!", "-", "-", " ", "W", "r", "i", "t", "e",
        " ", "c", "o", "d", "e", " ", "h", "e", "r", "e", " ", "-", "-", ">">> }

\* contexts: none, on one line, with white space around, blank, absent from
\* every buffer, over two lines
LocatorContexts ==
    {
      <<>>,
      <<"a">>,
      <<"b">>,
      <<" ", "a">>,
      <<"a", "\n">>,
      <<"z">>,
      <<" ">>,
      <<"b", "\n", "a">> }

LocatorSteps ==
    {<<>>} \cup {<<Step(<<"c">>, "e", x)>> : x \in LocatorContexts}

LocatorViewports == {0, 47, 48, 600}

\* learner mode is active on installed steps; the guidance effect is due, or
\* it did not run since the steps were installed
LocatorInit ==
    /\ view = "workspace"
    /\ currentLesson = 2
    /\ course = FreshCourse
    /\ settings = [learnerMode |-> TRUE, showInsertionHints |-> TRUE]
    /\ code \in LocatorBuffers
    /\ learnerSteps \in LocatorSteps
    /\ currentStepIndex = 0
    /\ learnerModeActive = TRUE
    /\ isLoadingSteps = FALSE
    /\ highlightLine = NullLine
    /\ checkResult = "null"
    /\ learnerFeedback = ""
    /\ pendingSteps = NoPending
    /\ rendered = Snap
    /\ effects \in { {"guidance"}, {} }
    /\ completions = 0
    /\ emitted = 0
    /\ cause = "none"
    /\ stepsOf = 2
    /\ rawSteps = learnerSteps
    /\ lastEval = NoEval
    /\ scrollTop = NoScroll
    /\ clientHeight \in LocatorViewports
    /\ isRunning = FALSE
    /\ LandingIdle

LocatorNext == GuidanceEffect \/ handleLocateInsertion

SpecLocator == LocatorInit /\ [][LocatorNext]_vars

\* t occurs in buf at offset i (from 0)
occursAt(buf, t, i) ==
    /\ i + Len(t) <= Len(buf)
    /\ \A k \in 1..Len(t) : buf[i + k] = t[k]

occurrences(buf, t) == {i \in 0..Len(buf) : occursAt(buf, t, i)}

leftmost(buf, t) ==
    CHOOSE i \in occurrences(buf, t) : \A j \in occurrences(buf, t) : i <= j

\* the number of newline characters among the first n characters of buf
newlinesIn(buf, n) == Cardinality({k \in 1..Len(buf) : k <= n /\ buf[k] = "\n"})

marker ==
    <<"<", "!", "-", "-", " ", "W", "r", "i", "t", "e", " ", "c",
      "o", "d", "e", " ", "h", "e", "r", "e", " ", "-", "-", ">">>

\* the guidance effect is the next step and has a current step to locate
GuidanceStep ==
    /\ view = "workspace"
    /\ nextEffect = "guidance"
    /\ rendered.learnerModeActive
    /\ rendered.currentStepIndex < Len(rendered.learnerSteps)

\* the buffer and the context the guidance effect reads
guidedBuffer == rendered.code
guidedContext == rendered.learnerSteps[rendered.currentStepIndex + 1].context

\* a context is given and, without the white space around it, occurs in buf
ContextFound(buf, ctx) == ctx # <<>> /\ occurrences(buf, core(ctx)) # {}

MarkerFound(buf) == occurrences(buf, marker) # {}

\* the line after the text that ends Len(ctx) characters past the leftmost
\* occurrence of the anchor
lineAfterContext(buf, ctx) ==
    newlinesIn(buf, leftmost(buf, core(ctx)) + Len(ctx)) + 1

lineOfMarker(buf) == newlinesIn(buf, leftmost(buf, marker))

\* C14: the locator resolves in a fixed order: 0 for an empty buffer; else the
\* context anchor when it is found; the insertion marker only when no context
\* is given or the context is not found; and the number of lines of the
\* buffer when neither is found.
C14_LocatorPriority ==
    [][ GuidanceStep =>
          highlightLine' =
             (IF guidedBuffer = <<>> THEN 0
              ELSE IF ContextFound(guidedBuffer, guidedContext)
                   THEN lineAfterContext(guidedBuffer, guidedContext)
              ELSE IF MarkerFound(guidedBuffer) THEN lineOfMarker(guidedBuffer)
              ELSE newlinesIn(guidedBuffer, Len(guidedBuffer)) + 1) ]_vars

\* the buffer 'a', '  <marker>', 'b' and the context 'b': the marker is on line
\* 1, the context on line 2, and the context decides
C14_Witness ==
    /\ highlightLine = 3
    /\ MarkerFound(code) /\ lineOfMarker(code) = 1
    /\ Len(learnerSteps) = 1
    /\ learnerSteps[1].context = <<"b">>
    /\ ContextFound(code, learnerSteps[1].context)

\* C15 as stated: with the trimmed context found at leftmost offset idx of a
\* non-empty buffer, the result is the number of newline characters in
\* buffer[0 .. idx + len(trimmed context)].
C15_ContextLine ==
    [][ (GuidanceStep /\ guidedBuffer # <<>>
           /\ ContextFound(guidedBuffer, guidedContext)) =>
          highlightLine' =
             newlinesIn(guidedBuffer,
                        leftmost(guidedBuffer, core(guidedContext))
                          + Len(core(guidedContext))) ]_vars

\* C16: with no context given or found and the marker at leftmost offset idx,
\* the result is the number of newline characters in buffer[0 .. idx], the
\* zero-based index of the line that holds the marker.
C16_MarkerLine ==
    [][ (GuidanceStep /\ guidedBuffer # <<>>
           /\ ~ContextFound(guidedBuffer, guidedContext)
           /\ MarkerFound(guidedBuffer)) =>
          highlightLine' =
             newlinesIn(guidedBuffer, leftmost(guidedBuffer, marker)) ]_vars

\* the buffer '<body>', '  <marker>', '</body>' without a context gives line 1
C16_Witness ==
    /\ code = <<"<", "b", "o", "d", "y", ">", "\n", " ", " ">> \o marker
                \o <<"\n", "<", "/", "b", "o", "d", "y", ">">>
    /\ Len(learnerSteps) = 1
    /\ learnerSteps[1].context = <<>>
    /\ highlightLine = 1

\* C17: for every buffer and every step the locator gives an integer >= 0,
\* and an anchor is matched at its leftmost occurrence: no occurrence of the
\* anchor gives an earlier line than the result.
C17_LocatorTotal ==
    [][ GuidanceStep =>
          /\ highlightLine' \in Nat
          /\ (guidedBuffer # <<>> /\ ContextFound(guidedBuffer, guidedContext)) =>
                 \A j \in occurrences(guidedBuffer, core(guidedContext)) :
                    highlightLine' <=
                       newlinesIn(guidedBuffer, j + Len(guidedContext)) + 1
          /\ (guidedBuffer # <<>> /\ ~ContextFound(guidedBuffer, guidedContext)
                 /\ MarkerFound(guidedBuffer)) =>
                 \A j \in occurrences(guidedBuffer, marker) :
                    highlightLine' <= newlinesIn(guidedBuffer, j) ]_vars

\* the anchor 'a' is on lines 1 and 3 of 'b', 'a', 'b', 'a': the result is the
\* line after the first of them
C17_Witness ==
    /\ code = <<"b", "\n", "a", "\n", "b", "\n", "a">>
    /\ Len(learnerSteps) = 1
    /\ learnerSteps[1].context = <<"a">>
    /\ Cardinality(occurrences(code, <<"a">>)) = 2
    /\ highlightLine = 2

\* twice max(0, topPadding + lineIndex*lineHeight - viewportHeight/2)
scrollTargetHalves(lineIndex, viewportHeight) ==
    LET twice == 2 * (24 + lineIndex * 24) - viewportHeight
    IN  IF twice > 0 THEN twice ELSE 0

\* C18: the offset given to the editor for a target line is
\* max(0, topPadding + lineIndex*lineHeight - viewportHeight/2) with line
\* height 24 and top padding 24, never negative, and the same from the
\* guidance effect and from the Locate button; 0 for line 10, viewport 600.
C18_ScrollOffset ==
    /\ [](scrollTop = NoScroll \/ scrollTop >= 0)
    /\ [][ GuidanceStep =>
              scrollTop' = scrollTargetHalves(highlightLine', clientHeight) ]_vars
    /\ [][ handleLocateInsertion =>
              scrollTop' =
                 scrollTargetHalves(
                    getInsertionLineIndex(code, learnerSteps, currentStepIndex),
                    clientHeight) ]_vars

\* line 10 in a viewport of 600: the offset is 0
C18_Witness ==
    /\ highlightLine = 10
    /\ clientHeight = 600
    /\ isRunning = FALSE
    /\ LandingIdle
    /\ scrollTop = 0

\* ---------------------------------------- the tracker on white space alone
\* buffers of up to MaxWs characters: a letter, the space and the newline
WsBuffers == SeqsUpTo({"a", " ", "\n"}, MaxWs)

\* two steps, the first with white space inside its code
WsSteps ==
    << Step(<<"a", " ", "a">>, "e1", <<>>), Step(<<"a", "a", "a">>, "e2", <<>>) >>

\* learner mode is active on the two steps and the tracker is about to
\* evaluate the buffer
NormalizeInit ==
    /\ view = "workspace"
    /\ currentLesson = 2
    /\ course = FreshCourse
    /\ settings = [learnerMode |-> TRUE, showInsertionHints |-> FALSE]
    /\ code \in WsBuffers
    /\ learnerSteps = WsSteps
    /\ currentStepIndex = 0
    /\ learnerModeActive = TRUE
    /\ isLoadingSteps = FALSE
    /\ highlightLine = NullLine
    /\ checkResult = "null"
    /\ learnerFeedback = ""
    /\ pendingSteps = NoPending
    /\ rendered = Snap
    /\ effects = {"validation"}
    /\ completions = 0
    /\ emitted = 0
    /\ cause = "none"
    /\ stepsOf = 2
    /\ rawSteps = WsSteps
    /\ lastEval = NoEval
    /\ scrollTop = NoScroll
    /\ clientHeight \in ViewportHeights
    /\ isRunning = FALSE
    /\ LandingIdle

NormalizeNext ==
    \/ \E v \in WsBuffers : BufferChange(v)
    \/ GuidanceEffect
    \/ ValidationEffect

SpecNormalize == NormalizeInit /\ [][NormalizeNext]_vars

\* the mounted workspace with everything the learner can do in it; effects
\* that are scheduled run, since React flushes them after the render that
\* scheduled them
LiveNext ==
    \/ \E v \in WsBuffers : BufferChange(v)
    \/ ResetCode
    \/ ClearFeedback
    \/ BackToMap
    \/ handleLocateInsertion
    \/ GuidanceEffect
    \/ ValidationEffect

SpecLive ==
    /\ NormalizeInit /\ [][LiveNext]_vars
    /\ WF_vars(GuidanceEffect) /\ WF_vars(ValidationEffect)

\* the tokens of a text: its maximal runs of characters that are not white
\* space, in order
RECURSIVE tokensFrom(_, _)
tokensFrom(text, cur) ==
    LET done == IF cur = <<>> THEN <<>> ELSE <<cur>>
    IN  IF text = <<>> THEN done
        ELSE IF Head(text) \in Whitespace
             THEN done \o tokensFrom(Tail(text), <<>>)
        ELSE tokensFrom(Tail(text), Append(cur, Head(text)))

tokens(text) == tokensFrom(text, <<>>)

\* C19: normalization does not see white space: when the buffer is replaced
\* by a text with the same tokens and other white space runs, its normal form
\* is the same, and so is the decision of the tracker for every step; the
\* normal form of the empty text is empty.
C19_NormalizeInvariant ==
    /\ [](normalize(<<>>) = <<>>)
    /\ [][ (code' # code /\ tokens(code') = tokens(code)) =>
              /\ normalize(code') = normalize(code)
              /\ \A i \in 1..Len(learnerSteps) :
                    stepMatches(code', learnerSteps[i])
                       = stepMatches(code, learnerSteps[i]) ]_vars

\* 'a a' was evaluated at index 1 and did not advance; the buffer is now 'a',
\* newline, 'a', the same tokens
C19_Witness ==
    /\ lastEval.evaluated
    /\ lastEval.code = <<"a", " ", "a">>
    /\ lastEval.index = 1
    /\ ~lastEval.advanced
    /\ code = <<"a", "\n", "a">>
    /\ tokens(code) = tokens(lastEval.code)
    /\ normalize(code) = normalize(lastEval.code)

\* the tracker advances to a step that is not the end of the list
Advances ==
    /\ Evaluating
    /\ currentStepIndex' = currentStepIndex + 1
    /\ currentStepIndex' < Len(learnerSteps')
    /\ view' = "workspace"

\* C20: after every advancement to an index i < N the guidance effect runs
\* again on the render of the new index, and the highlight line it sets is the
\* result of the locator for steps[i] on the buffer that caused the
\* advancement.
C20_GuidanceFollows ==
    /\ [][ Advances =>
              /\ nextEffect' = "guidance"
              /\ rendered'.learnerModeActive
              /\ rendered'.code = rendered.code
              /\ rendered'.learnerSteps = rendered.learnerSteps
              /\ rendered'.currentStepIndex = rendered.currentStepIndex + 1
              /\ lastEval'.advanced /\ lastEval'.code = rendered.code ]_vars
    /\ [][ (GuidanceStep /\ lastEval.evaluated /\ lastEval.advanced) =>
              /\ highlightLine' # NullLine
              /\ highlightLine' =
                    getInsertionLineIndex(lastEval.code, lastEval.steps,
                                          lastEval.index + 1) ]_vars

\* lesson 1, buffer 'a', newline, 'b': the step 'a' was passed, and the
\* highlight is line 1, after the context 'a' of the new step, not line 2,
\* the end of the buffer, which the step passed had
C20_Witness ==
    /\ view = "workspace"
    /\ stepsOf = 1
    /\ code = <<"a", "\n", "b">>
    /\ lastEval.evaluated /\ lastEval.advanced /\ lastEval.index = 0
    /\ lastEval.code = code
    /\ currentStepIndex = 1
    /\ Len(learnerSteps) = 2
    /\ nextEffect = "validation"
    /\ highlightLine = 1
    /\ getInsertionLineIndex(code, learnerSteps, 0) = 2

\* a lesson-complete event is emitted in this step
Completes == emitted' = emitted + 1

\* C21: the lesson-complete event names the lesson shown and carries the
\* buffer evaluated at the final advancement; the host marks that lesson
\* completed with that buffer as its userCode, leaves every other lesson as
\* it was, and leaves the workspace: view 'map', no current lesson.
C21_CompletionEffect ==
    [][ Completes =>
          /\ Evaluating
          /\ rendered.lesson = currentLesson
          /\ lastEval'.advanced /\ lastEval'.code = rendered.code
          /\ \A l \in Lessons :
                IF l = currentLesson
                THEN /\ course'[l].completed
                     /\ course'[l].userCode = rendered.code
                ELSE course'[l] = course[l]
          /\ view' = "map"
          /\ currentLesson' = NoLesson ]_vars

\* lesson 2 was completed with the buffer 'ab' in a course whose lesson 1 was
\* completed before; lesson 1 is as it was
C21_Witness ==
    /\ view = "map"
    /\ currentLesson = NoLesson
    /\ emitted = 1
    /\ lastEval.evaluated /\ lastEval.advanced
    /\ lastEval.code = <<"a", "b">>
    /\ course[2] = [completed |-> TRUE, userCode |-> <<"a", "b">>]
    /\ course[1] = [completed |-> TRUE, userCode |-> <<"a", "b", "b">>]
    /\ ~course[3].completed

\* C22: an evaluation of the tracker, whether it advances or not, leaves the
\* buffer and the step list as they are; what it changes is the step index,
\* the notification and the completion outputs.
C22_EvaluationFrame ==
    [][ Evaluating =>
          /\ code' = code
          /\ learnerSteps' = learnerSteps
          /\ learnerModeActive' = learnerModeActive
          /\ isLoadingSteps' = isLoadingSteps
          /\ highlightLine' = highlightLine
          /\ settings' = settings
          /\ currentStepIndex' \in {currentStepIndex, currentStepIndex + 1} ]_vars

\* an evaluation has advanced from step 0 of three; the buffer it read and
\* the three steps are in place
C22_Witness ==
    /\ view = "workspace"
    /\ lastEval.evaluated /\ lastEval.advanced /\ lastEval.index = 0
    /\ code = lastEval.code
    /\ learnerSteps = lastEval.steps
    /\ Len(learnerSteps) = 3
    /\ currentStepIndex = 1

\* some stretch of buf has the tokens of target, in order: the tokens of the
\* target appear with white space wherever the target has some and nowhere
\* else (the stretch may start and end inside a token of buf)
TokenSequenceAppears(buf, target) ==
    \E i \in 1..(Len(buf) + 1) : \E j \in (i - 1)..Len(buf) :
        tokens(SubSeq(buf, i, j)) = tokens(target)

\* C23 as stated: the tracker advances past step i only if the token sequence
\* of steps[i].code appears in the buffer; a buffer that has the characters
\* of the target with token boundaries merged or split does not advance.
C23_TokenSequence ==
    [][ (EvaluatingStep /\ currentStepIndex' = currentStepIndex + 1) =>
          TokenSequenceAppears(
             rendered.code,
             rendered.learnerSteps[rendered.currentStepIndex + 1].code) ]_vars

\* the tracker is about to evaluate, at index 0, a buffer that contains the
\* normal form of the code of every step of a list of at least two steps
AllStepsInBuffer ==
    /\ view = "workspace"
    /\ effects = {"validation"}
    /\ rendered.learnerModeActive
    /\ rendered.currentStepIndex = 0
    /\ currentStepIndex = 0
    /\ Len(rendered.learnerSteps) >= 2
    /\ \A i \in 1..Len(rendered.learnerSteps) :
          includes(normalize(rendered.code), normalize(rendered.learnerSteps[i].code))

\* the buffer on screen contains the normal form of every step
AllStepsOnScreen ==
    /\ view = "workspace"
    /\ rendered.mounted
    /\ rendered.learnerModeActive
    /\ Len(rendered.learnerSteps) >= 1
    /\ \A i \in 1..Len(rendered.learnerSteps) :
          includes(normalize(rendered.code), normalize(rendered.learnerSteps[i].code))

\* the lesson was completed by the evaluation of the last step
CompletedAtLastStep ==
    /\ view = "map"
    /\ lastEval.evaluated /\ lastEval.advanced
    /\ lastEval.index + 1 = Len(lastEval.steps)

\* C24: when one buffer change leaves a buffer that contains the normal form
\* of the code of every step, the tracker goes from index 0 to the terminal
\* index and emits completion, and the buffer does not change on the way: no
\* handler runs while effects are due, and the effects leave the buffer.
C24_PasteCompletes ==
    /\ [][ (view = "workspace" /\ effects # {} /\ "lesson" \notin effects) =>
              code' = code ]_vars
    /\ [][ (AllStepsOnScreen /\ effects # {}) =>
              \/ view' = "workspace" /\ effects' # {} /\ rendered'.code = rendered.code
              \/ CompletedAtLastStep' /\ lastEval'.code = rendered.code ]_vars
    /\ AllStepsInBuffer ~> CompletedAtLastStep

\* the learner replaced 'a' by 'aaa', which holds 'aa' and 'aaa'
C24_Witness ==
    /\ AllStepsInBuffer
    /\ rendered.code = <<"a", "a", "a">>
    /\ lastEval.evaluated /\ ~lastEval.advanced
    /\ lastEval.code = <<"a">>
    /\ Len(learnerSteps) = 2

\* C25 as stated: the locator's result depends on the context only through
\* its trimmed text: a second step whose context differs from the guided one
\* in leading or trailing white space alone, the anchor being found in the
\* buffer, resolves to the same line.
C25_TrimmedContextOnly ==
    [][ (GuidanceStep /\ ContextFound(guidedBuffer, guidedContext)) =>
          \A other \in LocatorContexts :
             (other # <<>> /\ core(other) = core(guidedContext)) =>
                getInsertionLineIndex(guidedBuffer,
                                      << Step(<<"c">>, "e", other) >>, 0)
                   = highlightLine' ]_vars

\* the steps a lesson can be given: its own, or a result of the step source
\* for its solution, filtered
StepListsOf(l) ==
    IF lessonSteps(l) # <<>> THEN {filterSteps(lessonSteps(l))}
    ELSE {filterSteps(raw) : raw \in generateLearnerSteps(lessonSolutionCode(l))}

C28_InitialHighlight ==
    (/\ Quiescent
     /\ learnerModeActive
     /\ ~isLoadingSteps
     /\ pendingCount = 0
     /\ stepsOf = currentLesson
     /\ learnerSteps # <<>>
     /\ currentStepIndex = 0) =>
        /\ highlightLine # NullLine
        /\ highlightLine = getInsertionLineIndex(code, learnerSteps, 0)

\* the lock rule of C30, on the course alone
Locked(l) ==
    /\ l # 1
    /\ ~course[l].completed
    /\ ~course[l - 1].completed

\* the first lesson in course order that is not completed
FirstUncompleted(l) ==
    /\ l \in Lessons
    /\ ~course[l].completed
    /\ \A k \in 1..(l - 1) : course[k].completed

\* C30: on the course map a lesson is locked exactly when it is not the first
\* lesson, is not completed and the lesson before it is not completed; no step
\* from the map opens a locked lesson; and Resume opens the first lesson
\* that is not completed, which is never locked.
C30_LockRule ==
    /\ [](view = "map" => \A l \in Lessons : isLocked(l) <=> Locked(l))
    /\ [][ (view = "map" /\ view' = "workspace") =>
              /\ currentLesson' \in Lessons
              /\ ~Locked(currentLesson')
              /\ ~isLocked(currentLesson') ]_vars
    /\ [][ (view = "map" /\ cause' = "resume") =>
              /\ FirstUncompleted(currentLesson')
              /\ currentLesson' = getNextLesson ]_vars
    /\ [](view = "map" => \A l \in Lessons : FirstUncompleted(l) => ~Locked(l))

\* Resume opened lesson 2 of a course whose first lesson is completed, while
\* lesson 3 is locked
C30_Witness ==
    /\ view = "workspace"
    /\ cause = "resume"
    /\ currentLesson = 2
    /\ course[1].completed /\ ~course[2].completed
    /\ Locked(3) /\ isLocked(3)

\* learner mode is active and the step list is empty
LearnerModeWithoutSteps ==
    /\ view = "workspace"
    /\ learnerModeActive
    /\ learnerSteps = <<>>

\* C29: while learner mode is active and the step list is empty, no step
\* emits lesson-complete or marks a lesson complete, whatever the buffer is
\* changed to; the Submit button is not offered, so handleMainAction is not
\* among the steps.
C29_NoCompletionWithoutSteps ==
    /\ [][ LearnerModeWithoutSteps =>
              /\ emitted' = emitted
              /\ completions' = completions
              /\ course' = course ]_vars
    /\ [][ (view = "workspace" /\ learnerModeActive) => ~handleMainAction ]_vars

\* every generated step of lesson 2 was filtered away; a check that was
\* started before learner mode was switched on has passed; the buffer was
\* changed and evaluated; the lesson is not completed
C29_Witness ==
    /\ Quiescent
    /\ LearnerModeWithoutSteps
    /\ currentLesson = 2 /\ stepsOf = 2 /\ rawSteps # <<>>
    /\ checkResult = "passed"
    /\ code = <<"a", "b">>
    /\ completions = 0
    /\ ~course[2].completed

\* a new prompt can be submitted: the form of the input phase is on screen
CanSubmitPrompt ==
    /\ view = "landing"
    /\ phase = "INPUT"
    /\ ~isGenerating

\* C26 as stated: when generateCourse rejects, reached from the design phase
\* or from the catch branch of the preview, the generating flag is cleared
\* and Landing, unless the user leaves it, comes back to a phase where a new
\* prompt can be submitted.
C26_FailureRecovers ==
    /\ [][ (failure' # "none" /\ courseCall # "none" /\ courseCall' = "none") =>
              ~isGenerating' ]_vars
    /\ (view = "landing" /\ failure = "design")
          ~> (CanSubmitPrompt \/ view # "landing")
    /\ (view = "landing" /\ failure = "shortcut")
          ~> (CanSubmitPrompt \/ view # "landing")

====
